---- MODULE Spec2Model ----
(***************************************************************************)
(* Model of the stoplight crate (src/src/lib.rs): Thread<T>, a handle to a *)
(* stoppable OS thread.  A handle couples a JoinHandle<T> (jh) with a      *)
(* shared Arc<AtomicBool> (stop).  The owner may stop(), join() or drop    *)
(* the handle; the worker runs the user function f(stop) on its own        *)
(* thread.                                                                 *)
(*                                                                         *)
(* The AtomicBool is a single memory location accessed only by atomic      *)
(* store/load.  Relaxed operations on one location are totally ordered by  *)
(* its modification order (coherence), so each store and each load is one  *)
(* atomic step of the interleaving.                                        *)
(***************************************************************************)
EXTENDS Naturals, FiniteSets

(* ---------------------------- bounds ----------------------------------- *)

\* Number of handles the owner side may spawn.
NumHandles == 2

\* The count of completed stop() calls on a handle saturates here.
MaxStops == 2

(* ------------------------ program constants ---------------------------- *)

\* The value the busy-loop worker returns once it reads the flag as stopped.
Sentinel == 42

Handles == 1..NumHandles

\* Values a worker may return, and payloads it may panic with.
Values == {0, Sentinel}
Payloads == {1}

(* ---------------------- user functions (F) ----------------------------- *)
\* The closures handed to spawn: F: FnOnce(Arc<AtomicBool>) -> T.
\*  busy : sleep; while !stop.load(Relaxed) {}; val     (the crate's test)
\*  ret  : val                                           (never reads stop)
\*  panic: panic_any(val)                                (never reads stop)
\*  spin : loop {}                                       (never reads stop)
Fn(k, v) == [kind |-> k, val |-> v]
NoFn == Fn("none", 0)
BusyFns == {Fn("busy", Sentinel)}
RetFns == {Fn("ret", v) : v \in Values}
PanicFns == {Fn("panic", p) : p \in Payloads}
SpinFns == {Fn("spin", 0)}
\*  clear: stop.store(false, Relaxed); val               (writes stop)
ClearFns == {Fn("clear", Sentinel)}
UserFns == BusyFns \cup RetFns \cup PanicFns \cup SpinFns

\* Result<T, Box<dyn Any + Send>> as returned by JoinHandle::join.
Ok(v) == [tag |-> "ok", val |-> v]
Err(p) == [tag |-> "err", val |-> p]
NoResult == [tag |-> "none", val |-> 0]

VARIABLES
    hs,       \* hs[h]: owner-side state of handle h
              \*   "none" not spawned, "owned" live, "joining" join(self) blocked,
              \*   "joined" join returned, "dropped" dropped without join
    f,        \* f[h]: the closure given to spawn
    pc,       \* pc[h]: position of the worker thread inside f
    cell,     \* cell[h]: the AtomicBool allocation handle h's Arc points to
    flag,     \* flag[c]: value of AtomicBool allocation c
    seen,     \* seen[h]: value of the worker's latest stop.load() (FALSE before any)
    outcome,  \* outcome[h]: what the worker thread terminated with
    result,   \* result[h]: what join() returned to the caller
    stops     \* stops[h]: completed stop() calls on h (saturating)

vars == <<hs, f, pc, cell, flag, seen, outcome, result, stops>>

Min(a, b) == IF a < b THEN a ELSE b

Init ==
    /\ hs = [h \in Handles |-> "none"]
    /\ f = [h \in Handles |-> NoFn]
    /\ pc = [h \in Handles |-> "idle"]
    /\ cell = [h \in Handles |-> h]
    /\ flag = [c \in Handles |-> FALSE]
    /\ seen = [h \in Handles |-> FALSE]
    /\ outcome = [h \in Handles |-> NoResult]
    /\ result = [h \in Handles |-> NoResult]
    /\ stops = [h \in Handles |-> 0]

(* ------------------------------ spawn ---------------------------------- *)

\* Faulty variant of Entry: a worker that is not started by spawn.
EntryLazy(fn) == "idle"

\* The first instruction of closure fn.
Entry(fn) ==
    CASE fn.kind = "busy" -> "sleep"
      [] fn.kind = "ret" -> "exit"
      [] fn.kind = "panic" -> "unwind"
      [] fn.kind = "spin" -> "spin"
      [] fn.kind = "clear" -> "store"

\* Faulty variant of NewCell: one flag shared by every handle.
NewCellShared(h) == 1

\* Arc::new(AtomicBool::new(false)): every spawn allocates its own cell.
NewCell(h) == h

\* Thread::spawn(fn): handles are numbered in the order they are spawned.
Spawn(h, fn) ==
    /\ hs[h] = "none"
    /\ \A k \in Handles : k < h => hs[k] # "none"
    /\ cell' = [cell EXCEPT ![h] = NewCell(h)]
    /\ flag' = [flag EXCEPT ![NewCell(h)] = FALSE]
    /\ hs' = [hs EXCEPT ![h] = "owned"]
    /\ f' = [f EXCEPT ![h] = fn]
    /\ pc' = [pc EXCEPT ![h] = Entry(fn)]
    /\ UNCHANGED <<seen, outcome, result, stops>>

(* ------------------------------- stop ---------------------------------- *)

\* Faulty variants of Stored: a store of the negated value; a store of false.
StoredToggle(h) == ~flag[cell[h]]

StoredFalse(h) == FALSE

\* The value stop() stores: self.stop.store(true, Relaxed).
Stored(h) == TRUE

\* Faulty variant of CanStop: a stop that waits for the worker to have terminated.
StopWhenDone(h) == hs[h] = "owned" /\ pc[h] = "done"

\* Faulty variant of CanStop: a stop still available on a handle given to join.
CanStopAfterJoin(h) == hs[h] \in {"owned", "joining"}

\* stop(&self) needs a live handle and nothing else.
CanStop(h) == hs[h] = "owned"

\* Thread::stop(&self)
Stop(h) ==
    /\ CanStop(h)
    /\ flag' = [flag EXCEPT ![cell[h]] = Stored(h)]
    /\ stops' = [stops EXCEPT ![h] = Min(stops[h] + 1, MaxStops)]
    /\ UNCHANGED <<hs, f, pc, cell, seen, outcome, result>>

(* ------------------------------- join ---------------------------------- *)

\* Faulty variant of JoinFlag: the join-signals-stop variant.
JoinFlagSignals(h) == [flag EXCEPT ![cell[h]] = TRUE]

\* The flag after join(self) is called: join does not touch self.stop.
JoinFlag(h) == flag

\* Faulty variant of CanJoin: a join that does not consume the handle.
CanJoinAgain(h) == hs[h] \in {"owned", "joined"}

\* join(self) takes the handle by value: it needs a handle not yet moved.
CanJoin(h) == hs[h] = "owned"

\* Thread::join(self): the handle is moved into the call, which blocks.
JoinCall(h) ==
    /\ CanJoin(h)
    /\ hs' = [hs EXCEPT ![h] = "joining"]
    /\ flag' = JoinFlag(h)
    /\ UNCHANGED <<f, pc, cell, seen, outcome, result, stops>>

\* Faulty variant of JoinReady: a join that does not wait for termination.
JoinReadyEarly(h) == pc[h] # "idle"

\* Faulty variant of JoinReady: a join that also returns once stop was signalled.
JoinReadyOrStopped(h) == pc[h] = "done" \/ flag[cell[h]]

\* self.jh.join() unblocks once the worker thread has terminated.
JoinReady(h) == pc[h] = "done"

\* Faulty variants of JoinValue: the panic payload replaced by a fixed one; the
\* returned value replaced by a default.
JoinValuePayloadLost(h) == IF outcome[h].tag = "err" THEN Err(0) ELSE outcome[h]

JoinValueDefault(h) == IF outcome[h].tag = "ok" THEN Ok(0) ELSE outcome[h]

\* Faulty variant of JoinValue: a stopped handle reports a cancellation.
JoinValueCancelled(h) == IF flag[cell[h]] THEN Err(0) ELSE outcome[h]

\* self.jh.join() hands back what the thread terminated with.
JoinValue(h) == outcome[h]

\* Thread::join(self) returns.
JoinReturn(h) ==
    /\ hs[h] = "joining"
    /\ JoinReady(h)
    /\ hs' = [hs EXCEPT ![h] = "joined"]
    /\ result' = [result EXCEPT ![h] = JoinValue(h)]
    /\ UNCHANGED <<f, pc, cell, flag, seen, outcome, stops>>

\* Faulty variant of DropFlag: the flag's memory is given back with the handle.
DropFlagReclaimed(h) == [flag EXCEPT ![cell[h]] = FALSE]

\* The flag after the handle is dropped: the owner's Arc is released, the
\* worker's clone (stop.clone(), moved into the thread) keeps the cell alive.
DropFlag(h) == flag

\* The handle goes out of scope without join: the thread is detached.
Drop(h) ==
    /\ hs[h] = "owned"
    /\ hs' = [hs EXCEPT ![h] = "dropped"]
    /\ flag' = DropFlag(h)
    /\ UNCHANGED <<f, pc, cell, seen, outcome, result, stops>>

(* ------------------------------ worker --------------------------------- *)

\* thread::sleep(Duration::from_millis(300))
WorkerSleep(h) ==
    /\ pc[h] = "sleep"
    /\ pc' = [pc EXCEPT ![h] = "loop"]
    /\ UNCHANGED <<hs, f, cell, flag, seen, outcome, result, stops>>

\* Faulty variant of Load: the worker keeps reading the value the flag was created with.
LoadStale(h) == FALSE

\* stop.load(Ordering::Relaxed)
Load(h) == flag[cell[h]]

\* The loop condition reads the flag.
WorkerLoad(h) ==
    /\ pc[h] = "loop"
    /\ seen' = [seen EXCEPT ![h] = Load(h)]
    /\ pc' = [pc EXCEPT ![h] = "test"]
    /\ UNCHANGED <<hs, f, cell, flag, outcome, result, stops>>

\* while !<loaded> {}
WorkerTest(h) ==
    /\ pc[h] = "test"
    /\ pc' = [pc EXCEPT ![h] = IF seen[h] THEN "exit" ELSE "loop"]
    /\ UNCHANGED <<hs, f, cell, flag, seen, outcome, result, stops>>

\* The closure returns its value; the thread terminates.
WorkerReturn(h) ==
    /\ pc[h] = "exit"
    /\ pc' = [pc EXCEPT ![h] = "done"]
    /\ outcome' = [outcome EXCEPT ![h] = Ok(f[h].val)]
    /\ UNCHANGED <<hs, f, cell, flag, seen, result, stops>>

\* The closure panics; the thread unwinds and terminates with the payload.
WorkerPanic(h) ==
    /\ pc[h] = "unwind"
    /\ pc' = [pc EXCEPT ![h] = "done"]
    /\ outcome' = [outcome EXCEPT ![h] = Err(f[h].val)]
    /\ UNCHANGED <<hs, f, cell, flag, seen, result, stops>>

\* loop {}: one more iteration of a worker that never reads the flag.
WorkerSpin(h) ==
    /\ pc[h] = "spin"
    /\ UNCHANGED vars

\* stop.store(false, Ordering::Relaxed) by a closure that writes its flag.
WorkerStore(h) ==
    /\ pc[h] = "store"
    /\ flag' = [flag EXCEPT ![cell[h]] = FALSE]
    /\ pc' = [pc EXCEPT ![h] = "exit"]
    /\ UNCHANGED <<hs, f, cell, seen, outcome, result, stops>>

Worker(h) ==
    \/ WorkerSleep(h)
    \/ WorkerLoad(h)
    \/ WorkerTest(h)
    \/ WorkerReturn(h)
    \/ WorkerPanic(h)
    \/ WorkerSpin(h)

\* Everything that can happen to handle h and its worker thread.
Step(h) ==
    \/ \E fn \in UserFns : Spawn(h, fn)
    \/ Stop(h)
    \/ JoinCall(h)
    \/ JoinReturn(h)
    \/ Drop(h)
    \/ Worker(h)

Next == \E h \in Handles : Step(h)

Spec == Init /\ [][Next]_vars

\* One handle on its own, with the platform's scheduling: a runnable worker
\* thread keeps taking steps, and a blocked join returns once its thread has
\* terminated.  The owner is free never to call stop, join or drop.
NextOne == Step(1)

FairOne ==
    /\ Init
    /\ [][NextOne]_vars
    /\ WF_vars(Worker(1))
    /\ WF_vars(JoinReturn(1))

\* One handle whose closure may also be one that stores to the Arc<AtomicBool>
\* it is given: spawn accepts any F: FnOnce(Arc<AtomicBool>) -> T.
StepAny(h) ==
    \/ Step(h)
    \/ \E fn \in ClearFns : Spawn(h, fn)
    \/ WorkerStore(h)

NextAny == StepAny(1)

AnyOne == Init /\ [][NextAny]_vars

(* ============================= claims ================================== *)

\* What join must hand back for closure fn once its thread has terminated.
Expected(fn) == IF fn.kind = "panic" THEN Err(fn.val) ELSE Ok(fn.val)

\* The step in which handle h's worker reads its flag.
IsLoad(h) == pc[h] = "loop" /\ pc'[h] = "test"

\* A step in which a stop() call on handle h completes (below saturation).
IsStop(h) == stops'[h] # stops[h]

\* C1 (cooperative stop): a worker that loops until it reads the flag as
\* stopped and then returns the sentinel: once stop() has been called and
\* join() is called, join eventually returns Ok(sentinel); a join of such a
\* worker never returns anything else.
C1_CooperativeStop ==
    /\ [](\A h \in Handles :
            (f[h].kind = "busy" /\ hs[h] = "joined") => result[h] = Ok(f[h].val))
    /\ \A h \in Handles :
            (f[h].kind = "busy" /\ stops[h] >= 1 /\ hs[h] = "joining")
                ~> (hs[h] = "joined" /\ result[h] = Ok(f[h].val))

C1_Witness ==
    \E h \in Handles :
        /\ f[h] = Fn("busy", Sentinel)
        /\ stops[h] >= 1
        /\ hs[h] = "joined"
        /\ result[h] = Ok(Sentinel)

\* C2 (normal completion): a worker that returns v without reading the flag:
\* a join on it eventually returns, and returns exactly Ok(v), whether or
\* not stop() was called.
C2_NormalCompletion ==
    /\ [](\A h \in Handles :
            (f[h].kind = "ret" /\ hs[h] = "joined") => result[h] = Ok(f[h].val))
    /\ \A h \in Handles :
            (f[h].kind = "ret" /\ hs[h] = "joining")
                ~> (hs[h] = "joined" /\ result[h] = Ok(f[h].val))

C2_Witness ==
    \E h \in Handles :
        /\ f[h] = Fn("ret", Sentinel)
        /\ stops[h] = 0
        /\ hs[h] = "joined"
        /\ result[h] = Ok(Sentinel)

\* C3 (join does not touch the flag): from the step that calls join to the
\* step in which it returns, the handle's flag keeps its value; a join that
\* returns with no stop() ever called finds the flag still not stopped.
C3_JoinKeepsFlag ==
    [][\A h \in Handles :
        /\ (hs[h] \in {"owned", "joining"} /\ hs'[h] \in {"joining", "joined"})
              => flag'[cell'[h]] = flag[cell[h]]
        /\ (hs'[h] = "joined" /\ stops'[h] = 0) => ~flag'[cell'[h]]]_vars

C3_Witness ==
    \E h \in Handles :
        /\ hs[h] = "joined"
        /\ stops[h] = 0
        /\ result[h].tag = "ok"
        /\ ~flag[cell[h]]

C5_PanicPropagates ==
    \A h \in Handles :
        /\ (hs[h] = "joining" /\ outcome[h].tag = "err") => ENABLED JoinReturn(h)
        /\ (hs[h] = "joined" /\ f[h].kind = "panic") => result[h] = Err(f[h].val)

C5_Witness ==
    \E h \in Handles, p \in Payloads :
        /\ f[h] = Fn("panic", p)
        /\ hs[h] = "joined"
        /\ result[h] = Err(p)

\* C6 (join waits for termination): whenever join has returned, the worker
\* thread has terminated, and join returned what the worker terminated with.
C6_JoinAfterTermination ==
    \A h \in Handles :
        hs[h] = "joined" =>
            /\ pc[h] = "done"
            /\ outcome[h] # NoResult
            /\ result[h] = outcome[h]

C6_Witness ==
    \E h \in Handles :
        /\ hs[h] = "joined"
        /\ f[h].kind = "busy"
        /\ pc[h] = "done"
        /\ result[h] = outcome[h]

\* C7 (stop never blocks): whatever the worker is doing, stop() on a live
\* handle can be taken at once; it is one step, which leaves the flag stopped
\* and changes nothing else (but the count of calls).
C7_StopNeverBlocks ==
    [][\A h \in Handles :
        /\ (hs[h] = "owned" => ENABLED Stop(h))
        /\ IsStop(h) =>
              /\ flag' = [flag EXCEPT ![cell[h]] = TRUE]
              /\ UNCHANGED <<hs, f, pc, cell, seen, outcome, result>>]_vars

C7_Witness ==
    \E h, k \in Handles :
        /\ hs[h] = "owned" /\ pc[h] = "sleep" /\ stops[h] >= 1 /\ flag[cell[h]]
        /\ hs[k] = "owned" /\ outcome[k].tag = "err" /\ stops[k] >= 1 /\ flag[cell[k]]

\* C8 (visibility): every flag read the worker makes after a stop() call on
\* its handle has returned yields "stopped".
C8_StopVisible ==
    [][\A h \in Handles : (IsLoad(h) /\ stops[h] >= 1) => seen'[h]]_vars

C8_Witness ==
    \E h \in Handles :
        /\ pc[h] = "test"
        /\ stops[h] >= 1
        /\ seen[h]

\* C9 (idempotent stop): a second or later stop() changes nothing (the flag,
\* the worker and the result are as the first call left them), and the join
\* result does not depend on how many times stop() was called.
C9_StopIdempotent ==
    [][\A h \in Handles :
        /\ (IsStop(h) /\ stops[h] >= 1)
              => UNCHANGED <<hs, f, pc, cell, flag, seen, outcome, result>>
        /\ (hs'[h] = "joined" /\ stops'[h] >= 1) => result'[h] = Expected(f'[h])]_vars

C9_Witness ==
    \E h \in Handles :
        /\ stops[h] >= 2
        /\ f[h].kind = "busy"
        /\ hs[h] = "joined"
        /\ result[h] = Ok(Sentinel)
        /\ flag[cell[h]]

\* C10 (independent handles): stop() on one handle changes no other handle's
\* flag; a worker's read yields "stopped" exactly when stop() was called on
\* its own handle; each join returns its own worker's result.
C10_IndependentHandles ==
    [][\A h \in Handles :
        /\ IsStop(h) => \A k \in Handles \ {h} : flag'[cell[k]] = flag[cell[k]]
        /\ IsLoad(h) => (seen'[h] <=> stops[h] >= 1)
        /\ hs'[h] # "none" => (flag'[cell'[h]] <=> stops'[h] >= 1)
        /\ hs'[h] = "joined" =>
              /\ result'[h] = outcome'[h]
              /\ result'[h].val = f'[h].val]_vars

C10_Witness ==
    \E h, k \in Handles :
        /\ f[h].kind = "busy" /\ f[k].kind = "busy"
        /\ stops[h] >= 1 /\ hs[h] = "joined" /\ result[h] = Ok(Sentinel)
        /\ stops[k] = 0 /\ pc[k] = "test" /\ ~seen[k] /\ ~flag[cell[k]]

\* A step taken by handle h's worker thread.
IsWorkerStep(h) == pc[h] # "idle" /\ pc'[h] # pc[h]

\* C11 as claimed (no write access for the worker): no step of the user
\* function changes the value of its flag.
C11_WorkerNeverWrites ==
    [][\A h \in Handles :
        IsWorkerStep(h) => flag'[cell[h]] = flag[cell[h]]]_vars

\* C11 as amended: the flag changes only in a stop() on its live handle, which
\* sets it, or in a store the closure itself makes through the
\* Arc<AtomicBool> it was given; join, drop and a closure that only loads
\* never change it.
C11_WritersOfFlag ==
    [][\A h \in Handles :
        flag'[cell[h]] # flag[cell[h]] =>
            \/ /\ hs[h] = "owned" /\ hs'[h] = "owned"
               /\ ~IsWorkerStep(h)
               /\ flag'[cell[h]]
            \/ /\ IsWorkerStep(h)
               /\ f[h].kind = "clear" /\ pc[h] = "store"]_vars

C11_Witness ==
    \E h \in Handles :
        /\ f[h].kind = "clear"
        /\ stops[h] >= 1
        /\ pc[h] = "done"
        /\ ~flag[cell[h]]

\* C12 as claimed (stop concurrent with join): while a join() on a handle is
\* blocked, a stop() on that handle can still be issued.
C12_StopDuringJoin ==
    \A h \in Handles : hs[h] = "joining" => ENABLED Stop(h)

\* C12 as amended: stop() can be issued while the worker is reading the flag
\* as long as the handle is live; once join() was called the handle has been
\* moved into it and no stop() can be issued, so during a blocked join the
\* flag is what the stop() calls made before the join left it.
C12_StopOnlyBeforeJoin ==
    \A h \in Handles :
        /\ (hs[h] = "owned" /\ pc[h] \in {"loop", "test"}) => ENABLED Stop(h)
        /\ hs[h] = "joining" =>
              /\ ~ENABLED Stop(h)
              /\ flag[cell[h]] <=> stops[h] >= 1

C12_Witness ==
    \E h \in Handles :
        /\ hs[h] = "joining"
        /\ stops[h] >= 1
        /\ pc[h] = "test"
        /\ seen[h]

\* C13 (join consumes the handle): once join() has been called on a handle,
\* no stop, no second join and no drop can be performed on it.
C13_JoinConsumesHandle ==
    \A h \in Handles :
        hs[h] \in {"joining", "joined"} =>
            /\ ~ENABLED Stop(h)
            /\ ~ENABLED JoinCall(h)
            /\ ~ENABLED Drop(h)

C13_Witness ==
    \E h \in Handles :
        /\ hs[h] = "joined"
        /\ stops[h] >= 1
        /\ result[h] # NoResult

\* C14 (stop does not influence a flag-independent result): two handles
\* running the same closure that never reads the flag, joined after
\* different numbers of stop() calls (none, one, several, given at any
\* time), return the same result.
C14_StopIndependentResult ==
    \A h, k \in Handles :
        (/\ f[h] = f[k]
         /\ f[h].kind \in {"ret", "panic"}
         /\ hs[h] = "joined" /\ hs[k] = "joined")
            => result[h] = result[k]

C14_Witness ==
    \E h, k \in Handles :
        /\ f[h] = f[k]
        /\ f[h].kind = "ret"
        /\ hs[h] = "joined" /\ hs[k] = "joined"
        /\ stops[h] = 0 /\ stops[k] >= 2
        /\ result[h] = result[k]

\* C15 (no preemption): a worker that never reads the flag and never returns
\* has not terminated and its join has not returned, however many stop()
\* calls were made.
C15_NoPreemption ==
    \A h \in Handles :
        f[h].kind = "spin" =>
            /\ pc[h] = "spin"
            /\ outcome[h] = NoResult
            /\ hs[h] # "joined"

C15_Witness ==
    \E h \in Handles :
        /\ f[h].kind = "spin"
        /\ stops[h] >= 2
        /\ flag[cell[h]]
        /\ hs[h] = "joining"
        /\ pc[h] = "spin"

\* C16 (exactly one result per worker): the closure is started once and, once
\* terminated, stays terminated; its outcome is produced in the step in which
\* it terminates and never changes afterwards; the outcome reaches the caller
\* only in the step in which join returns, once, and unchanged.
C16_ExactlyOneResult ==
    [][\A h \in Handles :
        /\ pc[h] # "idle" => (pc'[h] # "idle" /\ f'[h] = f[h])
        /\ pc[h] = "done" => pc'[h] = "done"
        /\ outcome'[h] # outcome[h] =>
              (outcome[h] = NoResult /\ pc[h] # "done" /\ pc'[h] = "done")
        /\ result'[h] # result[h] =>
              /\ hs[h] = "joining" /\ hs'[h] = "joined"
              /\ result[h] = NoResult
              /\ result'[h] = outcome[h]
        /\ hs[h] = "joined" => (hs'[h] = "joined" /\ result'[h] = result[h])]_vars

C16_Witness ==
    \E h \in Handles :
        /\ f[h].kind = "panic"
        /\ pc[h] = "done"
        /\ hs[h] = "joined"
        /\ result[h] = outcome[h]
        /\ outcome[h].tag = "err"

\* C17 (spawn is eager and does not block): the step that spawns returns a
\* live handle with the flag not stopped and the closure at its first
\* instruction, with no outcome yet; a worker that has not terminated can
\* always take a step; and with no further owner action a closure that
\* returns or panicks terminates, and the busy-loop closure gets past its
\* first instruction.
C17_SpawnEager ==
    /\ [][\A h \in Handles :
            (hs[h] = "none" /\ hs'[h] # "none") =>
                /\ hs'[h] = "owned"
                /\ ~flag'[cell'[h]]
                /\ stops'[h] = 0
                /\ pc'[h] \in {"sleep", "exit", "unwind", "spin"}
                /\ outcome'[h] = NoResult]_vars
    /\ [](\A h \in Handles : pc[h] \notin {"idle", "done"} => ENABLED Worker(h))
    /\ \A h \in Handles : (f[h].kind \in {"ret", "panic"}) ~> (pc[h] = "done")
    /\ \A h \in Handles : (f[h].kind = "busy") ~> (pc[h] # "sleep")

C17_Witness ==
    \E h \in Handles :
        /\ hs[h] = "owned"
        /\ stops[h] = 0
        /\ f[h].kind = "ret"
        /\ pc[h] = "done"
        /\ outcome[h] = Ok(f[h].val)

\* C18 (drop detaches): the step that drops a live handle changes neither
\* the flag nor the worker; after it the worker can still take its steps, the
\* flag keeps its value, a read returns the last value written, and the
\* worker fails only if its closure panics.
C18_DropDetaches ==
    [][\A h \in Handles :
        /\ (hs[h] = "owned" /\ hs'[h] = "dropped") =>
              (flag' = flag /\ pc' = pc /\ seen' = seen /\ outcome' = outcome)
        /\ hs[h] = "dropped" =>
              /\ hs'[h] = "dropped"
              /\ flag'[cell[h]] = flag[cell[h]]
              /\ pc[h] # "done" => ENABLED Worker(h)
              /\ IsLoad(h) => (seen'[h] <=> stops[h] >= 1)
              /\ outcome'[h].tag = "err" => f[h].kind = "panic"]_vars

C18_Witness ==
    \E h \in Handles :
        /\ hs[h] = "dropped"
        /\ f[h].kind = "busy"
        /\ stops[h] >= 1
        /\ pc[h] = "done"
        /\ outcome[h] = Ok(Sentinel)

\* C19 (join without a prior stop blocks forever): for the busy-loop worker,
\* a join called with no stop() before it has not returned: the handle is
\* gone, so no stop() can be issued, the flag is not stopped, and the worker
\* is still in its loop, having never read "stopped".
C19_JoinWithoutStopBlocks ==
    \A h \in Handles :
        (f[h].kind = "busy" /\ stops[h] = 0 /\ hs[h] \in {"joining", "joined"}) =>
            /\ hs[h] = "joining"
            /\ ~ENABLED Stop(h)
            /\ ~flag[cell[h]]
            /\ ~seen[h]
            /\ pc[h] \in {"sleep", "loop", "test"}

C19_Witness ==
    \E h \in Handles :
        /\ f[h].kind = "busy"
        /\ stops[h] = 0
        /\ hs[h] = "joining"
        /\ pc[h] = "test"
        /\ ~seen[h]

====
